---- MODULE Spec2Model ----
(***************************************************************************)
(* Gravity-vector fusion of the EKF (Ekf::controlGravityFusion,            *)
(* src/modules/ekf2/EKF/gravity_fusion.cpp).                               *)
(*                                                                         *)
(* Floating-point quantities are modelled in fixed point:                  *)
(*   - accelerations: one unit is a tenth of standard gravity, so that     *)
(*     CONSTANTS_ONE_G, 0.9 g and 1.1 g are the integers 10, 9 and 11;     *)
(*   - variances and covariances: integers, the noise floor sq(0.01f)      *)
(*     being the smallest positive value, 1;                               *)
(*   - Kalman gains: integers in units of 1/KDenom.                        *)
(* The state vector has StateDim entries: 1..3 are the attitude states     *)
(* observed by the gravity measurement (the predicted specific force in    *)
(* the body frame), 4..6 the accelerometer bias.                           *)
(***************************************************************************)
EXTENDS Integers, Sequences, FiniteSets, TLC

\* ------------------------------------------------------------------ bounds

\* Number of filter cycles (calls of controlGravityFusion) explored.
MaxCalls == 2

\* --------------------------------------------------------------- constants

CONSTANTS_ONE_G == 10
\* sq(0.01f): the floor of the measurement variance.
MinGravityNoiseSq == 1
\* FLT_EPSILON: the smallest positive quantity of the fixed-point scale.
FLT_EPSILON == 1
\* ImuCtrl::GravityVector, bit 2 of the imu_ctrl mask.
ImuCtrl_GravityVector == 4
\* Mutant of innovation_gate: a gate of three standard deviations.
innovation_gate_wide == 1 + 2

\* float innovation_gate = 1.f
innovation_gate == 1
\* Denominator of the fixed-point Kalman gains.
KDenom == 8
StateDim == 6

Axes == 1..3
StateIdx == 1..StateDim

\* ----------------------------------------------------------------- helpers

sq(x) == x * x

max(a, b) == IF a >= b THEN a ELSE b

norm_squared(v) == sq(v[1]) + sq(v[2]) + sq(v[3])

Zero3 == <<0, 0, 0>>

\* _state.accel_bias: entries 4..6 of the state vector.
accel_bias(st) == <<st[4], st[5], st[6]>>

\* ------------------------------------------------------------------- state

VARIABLES
    state,              \* _state.vector(): the state vector
    P,                  \* P: the state covariance matrix
    accel_vec_filt,     \* _accel_vec_filt: low-pass filtered acceleration
    params,             \* _params: imu_ctrl, gravity_noise
    control_status,     \* _control_status.flags: gravity_vector, vehicle_at_rest
    horizontal_aiding,  \* the value isHorizontalAidingActive() returns
    aid_src_gravity,    \* _aid_src_gravity: the diagnostic record
    phase,              \* position in the filter cycle: "predict" or "fuse"
    cycle,              \* number of completed calls of controlGravityFusion
    call                \* trace of the last call: its input, locals and steps

vars == <<state, P, accel_vec_filt, params, control_status, horizontal_aiding,
          aid_src_gravity, phase, cycle, call>>

\* ------------------------------------------------ the magnitude gate (53-63)

upper_accel_limit == (CONSTANTS_ONE_G * 11) \div 10

lower_accel_limit == (CONSTANTS_ONE_G * 9) \div 10

\* Mutant of accel_norm_good: the band taken with its two bounds included.
accel_norm_good_inclusive(norm_sq) ==
    (norm_sq >= sq(lower_accel_limit)) /\ (norm_sq <= sq(upper_accel_limit))

\* accel_lpf_norm_good / accel_norm_good: strictly inside the band.
accel_norm_good(norm_sq) ==
    (norm_sq > sq(lower_accel_limit)) /\ (norm_sq < sq(upper_accel_limit))

\* Mutant of GravityVectorEnabled: any bit of the mask enables the source.
GravityVectorEnabled_anybit(imu_ctrl) == imu_ctrl # 0

\* _params.imu_ctrl & static_cast<int32_t>(ImuCtrl::GravityVector)
GravityVectorEnabled(imu_ctrl) ==
    (imu_ctrl \div ImuCtrl_GravityVector) % 2 = 1

\* const Vector3f measurement = imu.delta_vel / imu.delta_vel_dt - _state.accel_bias
Measurement(imu, st) ==
    [i \in Axes |-> (imu.delta_vel[i] \div imu.delta_vel_dt) - accel_bias(st)[i]]

\* Mutant of MeasurementVar: the floor is missing.
MeasurementVar_no_floor(gravity_noise) == sq(gravity_noise)

\* const float measurement_var = math::max(sq(_params.gravity_noise), sq(0.01f))
MeasurementVar(gravity_noise) == max(sq(gravity_noise), MinGravityNoiseSq)

\* Mutant of GravityVectorFlag: the at-rest flag replaces only the check of the
\* instantaneous magnitude, the filtered magnitude is still required.
GravityVectorFlag_lpf_required(measurement, lpf, imu_ctrl, vehicle_at_rest, horiz) ==
    /\ GravityVectorEnabled(imu_ctrl)
    /\ accel_norm_good(norm_squared(lpf))
    /\ (accel_norm_good(norm_squared(measurement)) \/ vehicle_at_rest)
    /\ ~horiz

\* Mutant of GravityVectorFlag: the at-rest flag also overrides the exclusion
\* with horizontal aiding.
GravityVectorFlag_rest_overrides_aiding(measurement, lpf, imu_ctrl, vehicle_at_rest, horiz) ==
    /\ GravityVectorEnabled(imu_ctrl)
    /\ \/ (accel_norm_good(norm_squared(lpf))
            /\ accel_norm_good(norm_squared(measurement)) /\ ~horiz)
       \/ vehicle_at_rest

\* The value assigned to _control_status.flags.gravity_vector.
GravityVectorFlag(measurement, lpf, imu_ctrl, vehicle_at_rest, horiz) ==
    LET accel_lpf_norm_sq == norm_squared(lpf)
        accel_norm_sq == norm_squared(measurement)
        accel_lpf_norm_good == accel_norm_good(accel_lpf_norm_sq)
        accel_norm_ok == accel_norm_good(accel_norm_sq)
    IN  /\ GravityVectorEnabled(imu_ctrl)
        /\ ((accel_lpf_norm_good /\ accel_norm_ok) \/ vehicle_at_rest)
        /\ ~horiz

\* ------------------------------------------- the gain computer (external)

\* sym::ComputeGravityInnovVarAndKAndH: innovation, innovation variance and
\* one Kalman gain vector per axis, from the state and covariance given.
ComputeGravityInnovVarAndKAndH(st, Pm, meas, R, epsilon) ==
    LET innov == [i \in Axes |-> meas[i] - st[i]]
        innov_var == [i \in Axes |-> max(Pm[i][i] + R, epsilon)]
        K(i) == [r \in StateIdx |-> (Pm[r][i] * KDenom) \div innov_var[i]]
    IN  [innovation |-> innov, innovation_variance |-> innov_var,
         Kx |-> K(1), Ky |-> K(2), Kz |-> K(3)]

\* ------------------------------------------- the diagnostic record helpers

\* resetEstimatorAidStatus: every field but time_last_fuse is cleared.
resetEstimatorAidStatus(rec) ==
    [timestamp_sample |-> 0,
     observation |-> Zero3, observation_variance |-> Zero3,
     innovation |-> Zero3, innovation_variance |-> Zero3,
     test_ratio |-> Zero3,
     innovation_rejected |-> FALSE, fused |-> FALSE,
     time_last_fuse |-> rec.time_last_fuse]

\* setEstimatorAidStatusTestRatio: per axis innovation^2 / (gate^2 * variance),
\* kept in units of 1/KDenom; rejected when a ratio exceeds one.
setEstimatorAidStatusTestRatio(rec, gate) ==
    LET ratio == [i \in Axes |->
                    (sq(rec.innovation[i]) * KDenom)
                        \div (sq(gate) * rec.innovation_variance[i])]
        rejected == \E i \in Axes :
                        sq(rec.innovation[i]) > sq(gate) * rec.innovation_variance[i]
    IN  [rec EXCEPT !.test_ratio = ratio, !.innovation_rejected = rejected]

\* ------------------------------------------------ one scalar Kalman update

\* Ekf::measurementUpdate(K, innovation_variance, innovation): the rank-1
\* covariance correction K S K^T and the state correction K * innovation;
\* refused, with nothing changed, when a variance would become negative.
measurementUpdate(st, Pm, K, innovation_variance, innovation) ==
    LET KS == [r \in StateIdx |-> K[r] * innovation_variance]
        KHP == [r \in StateIdx |-> [c \in StateIdx |->
                    (KS[r] * K[c]) \div (KDenom * KDenom)]]
        is_healthy == \A i \in StateIdx : Pm[i][i] >= KHP[i][i]
    IN  IF is_healthy
        THEN [ok |-> TRUE,
              state |-> [r \in StateIdx |-> st[r] + ((K[r] * innovation) \div KDenom)],
              P |-> [r \in StateIdx |-> [c \in StateIdx |-> Pm[r][c] - KHP[r][c]]]]
        ELSE [ok |-> FALSE, state |-> st, P |-> Pm]

\* ------------------------------------------- controlGravityFusion (47-100)

\* Mutant of AccelClipping: only the first axis is looked at.
AccelClipping_first_axis(imu) == imu.delta_vel_clipping[1]

\* const bool accel_clipping = imu.delta_vel_clipping[0] || [1] || [2]
AccelClipping(imu) ==
    imu.delta_vel_clipping[1] \/ imu.delta_vel_clipping[2] \/ imu.delta_vel_clipping[3]

\* Mutant of FusionGuard: clipping does not hold the fusion back.
FusionGuard_ignores_clipping(gravity_vector, innovation_rejected, accel_clipping) ==
    gravity_vector /\ ~innovation_rejected

\* Mutant of FusionGuard: the eligibility flag is not consulted.
FusionGuard_ignores_eligibility(gravity_vector, innovation_rejected, accel_clipping) ==
    ~innovation_rejected /\ ~accel_clipping

\* if (gravity_vector && !_aid_src_gravity.innovation_rejected && !accel_clipping)
FusionGuard(gravity_vector, innovation_rejected, accel_clipping) ==
    gravity_vector /\ ~innovation_rejected /\ ~accel_clipping

\* Mutant of FillAidStatus: the loop over observation_variance is missing.
FillAidStatus_no_observation_variance(rec, imu, measurement, measurement_var, g) ==
    LET r0 == resetEstimatorAidStatus(rec)
        r1 == [r0 EXCEPT
                 !.timestamp_sample = imu.time_us,
                 !.observation = measurement,
                 !.innovation = g.innovation,
                 !.innovation_variance = g.innovation_variance]
    IN  setEstimatorAidStatusTestRatio(r1, innovation_gate)

\* Mutant of FillAidStatus: a rejection left by the previous call is kept.
FillAidStatus_sticky_rejection(rec, imu, measurement, measurement_var, g) ==
    LET r0 == resetEstimatorAidStatus(rec)
        r1 == [r0 EXCEPT
                 !.timestamp_sample = imu.time_us,
                 !.observation = measurement,
                 !.observation_variance = [i \in Axes |-> measurement_var],
                 !.innovation = g.innovation,
                 !.innovation_variance = g.innovation_variance]
        r2 == setEstimatorAidStatusTestRatio(r1, innovation_gate)
    IN  [r2 EXCEPT !.innovation_rejected = @ \/ rec.innovation_rejected]

\* Mutant of FillAidStatus: the record is not reset before it is filled.
FillAidStatus_no_reset(rec, imu, measurement, measurement_var, g) ==
    LET r1 == [rec EXCEPT
                 !.timestamp_sample = imu.time_us,
                 !.observation = measurement,
                 !.observation_variance = [i \in Axes |-> measurement_var],
                 !.innovation = g.innovation,
                 !.innovation_variance = g.innovation_variance]
    IN  setEstimatorAidStatusTestRatio(r1, innovation_gate)

\* Lines 74-86: reset, then the sample time, the observation and its variance,
\* the innovation and its variance, then the test ratio.
FillAidStatus(rec, imu, measurement, measurement_var, g) ==
    LET r0 == resetEstimatorAidStatus(rec)
        r1 == [r0 EXCEPT
                 !.timestamp_sample = imu.time_us,
                 !.observation = measurement,
                 !.observation_variance = [i \in Axes |-> measurement_var],
                 !.innovation = g.innovation,
                 !.innovation_variance = g.innovation_variance]
    IN  setEstimatorAidStatusTestRatio(r1, innovation_gate)

\* Mutant of FuseAxes: & in place of &&, every axis is updated whatever the
\* axes before it returned.
FuseAxes_no_short_circuit(st, Pm, g) ==
    LET ux == measurementUpdate(st, Pm, g.Kx,
                                g.innovation_variance[1], g.innovation[1])
        uy == measurementUpdate(ux.state, ux.P, g.Ky,
                                g.innovation_variance[2], g.innovation[2])
        uz == measurementUpdate(uy.state, uy.P, g.Kz,
                                g.innovation_variance[3], g.innovation[3])
        snap(u) == [state |-> u.state, P |-> u.P]
    IN  [fused |-> ux.ok /\ uy.ok /\ uz.ok, state |-> uz.state, P |-> uz.P,
         results |-> <<ux.ok, uy.ok, uz.ok>>,
         steps |-> <<snap(ux), snap(uy), snap(uz)>>]

\* Mutant of FuseAxes: a failed axis rolls the earlier axes back.
FuseAxes_all_or_nothing(st, Pm, g) ==
    LET ux == measurementUpdate(st, Pm, g.Kx,
                                g.innovation_variance[1], g.innovation[1])
        uy == measurementUpdate(ux.state, ux.P, g.Ky,
                                g.innovation_variance[2], g.innovation[2])
        uz == measurementUpdate(uy.state, uy.P, g.Kz,
                                g.innovation_variance[3], g.innovation[3])
        snap(u) == [state |-> u.state, P |-> u.P]
    IN  IF ~ux.ok
        THEN [fused |-> FALSE, state |-> st, P |-> Pm,
              results |-> <<FALSE>>, steps |-> <<snap(ux)>>]
        ELSE IF ~uy.ok
        THEN [fused |-> FALSE, state |-> st, P |-> Pm,
              results |-> <<TRUE, FALSE>>, steps |-> <<snap(ux), snap(uy)>>]
        ELSE IF ~uz.ok
        THEN [fused |-> FALSE, state |-> st, P |-> Pm,
              results |-> <<TRUE, TRUE, FALSE>>,
              steps |-> <<snap(ux), snap(uy), snap(uz)>>]
        ELSE [fused |-> TRUE, state |-> uz.state, P |-> uz.P,
              results |-> <<TRUE, TRUE, TRUE>>,
              steps |-> <<snap(ux), snap(uy), snap(uz)>>]

\* Mutant of FuseAxes: the axes are updated in the order z, y, x.
FuseAxes_zyx(st, Pm, g) ==
    LET uz == measurementUpdate(st, Pm, g.Kz,
                                g.innovation_variance[3], g.innovation[3])
        uy == measurementUpdate(uz.state, uz.P, g.Ky,
                                g.innovation_variance[2], g.innovation[2])
        ux == measurementUpdate(uy.state, uy.P, g.Kx,
                                g.innovation_variance[1], g.innovation[1])
        snap(u) == [state |-> u.state, P |-> u.P]
    IN  IF ~uz.ok
        THEN [fused |-> FALSE, state |-> uz.state, P |-> uz.P,
              results |-> <<FALSE>>, steps |-> <<snap(uz)>>]
        ELSE IF ~uy.ok
        THEN [fused |-> FALSE, state |-> uy.state, P |-> uy.P,
              results |-> <<TRUE, FALSE>>, steps |-> <<snap(uz), snap(uy)>>]
        ELSE [fused |-> ux.ok, state |-> ux.state, P |-> ux.P,
              results |-> <<TRUE, TRUE, ux.ok>>,
              steps |-> <<snap(uz), snap(uy), snap(ux)>>]

\* Mutant of FuseAxes: success is reported only when the state vector moved.
FuseAxes_requires_change(st, Pm, g) ==
    LET ux == measurementUpdate(st, Pm, g.Kx,
                                g.innovation_variance[1], g.innovation[1])
        uy == measurementUpdate(ux.state, ux.P, g.Ky,
                                g.innovation_variance[2], g.innovation[2])
        uz == measurementUpdate(uy.state, uy.P, g.Kz,
                                g.innovation_variance[3], g.innovation[3])
        snap(u) == [state |-> u.state, P |-> u.P]
    IN  IF ~ux.ok
        THEN [fused |-> FALSE, state |-> ux.state, P |-> ux.P,
              results |-> <<FALSE>>, steps |-> <<snap(ux)>>]
        ELSE IF ~uy.ok
        THEN [fused |-> FALSE, state |-> uy.state, P |-> uy.P,
              results |-> <<TRUE, FALSE>>, steps |-> <<snap(ux), snap(uy)>>]
        ELSE [fused |-> uz.ok /\ uz.state # st, state |-> uz.state, P |-> uz.P,
              results |-> <<TRUE, TRUE, uz.ok>>,
              steps |-> <<snap(ux), snap(uy), snap(uz)>>]

\* Mutant of FuseAxes: innovation, variance and gain of y and of z are
\* computed again from the state and covariance the earlier updates left.
FuseAxes_recompute(st, Pm, g) ==
    LET meas == [i \in Axes |-> g.innovation[i] + st[i]]
        R == g.innovation_variance[1] - Pm[1][1]
        ux == measurementUpdate(st, Pm, g.Kx,
                                g.innovation_variance[1], g.innovation[1])
        gy == ComputeGravityInnovVarAndKAndH(ux.state, ux.P, meas, R, FLT_EPSILON)
        uy == measurementUpdate(ux.state, ux.P, gy.Ky,
                                gy.innovation_variance[2], gy.innovation[2])
        gz == ComputeGravityInnovVarAndKAndH(uy.state, uy.P, meas, R, FLT_EPSILON)
        uz == measurementUpdate(uy.state, uy.P, gz.Kz,
                                gz.innovation_variance[3], gz.innovation[3])
        snap(u) == [state |-> u.state, P |-> u.P]
    IN  IF ~ux.ok
        THEN [fused |-> FALSE, state |-> ux.state, P |-> ux.P,
              results |-> <<FALSE>>, steps |-> <<snap(ux)>>]
        ELSE IF ~uy.ok
        THEN [fused |-> FALSE, state |-> uy.state, P |-> uy.P,
              results |-> <<TRUE, FALSE>>, steps |-> <<snap(ux), snap(uy)>>]
        ELSE [fused |-> uz.ok, state |-> uz.state, P |-> uz.P,
              results |-> <<TRUE, TRUE, uz.ok>>,
              steps |-> <<snap(ux), snap(uy), snap(uz)>>]

\* Lines 92-94: measurementUpdate(Kx..) && measurementUpdate(Ky..) &&
\* measurementUpdate(Kz..), evaluated left to right with short circuit, each
\* update acting on the state and covariance the one before it left.
\* results: what each executed update returned; steps: the state and
\* covariance after each executed update.
FuseAxes(st, Pm, g) ==
    LET ux == measurementUpdate(st, Pm, g.Kx,
                                g.innovation_variance[1], g.innovation[1])
        uy == measurementUpdate(ux.state, ux.P, g.Ky,
                                g.innovation_variance[2], g.innovation[2])
        uz == measurementUpdate(uy.state, uy.P, g.Kz,
                                g.innovation_variance[3], g.innovation[3])
        snap(u) == [state |-> u.state, P |-> u.P]
    IN  IF ~ux.ok
        THEN [fused |-> FALSE, state |-> ux.state, P |-> ux.P,
              results |-> <<FALSE>>, steps |-> <<snap(ux)>>]
        ELSE IF ~uy.ok
        THEN [fused |-> FALSE, state |-> uy.state, P |-> uy.P,
              results |-> <<TRUE, FALSE>>, steps |-> <<snap(ux), snap(uy)>>]
        ELSE [fused |-> uz.ok, state |-> uz.state, P |-> uz.P,
              results |-> <<TRUE, TRUE, uz.ok>>,
              steps |-> <<snap(ux), snap(uy), snap(uz)>>]

\* Mutant of StampFused: the time is stamped whenever fusion was attempted.
StampFused_unconditional(rec, fused, imu) ==
    [rec EXCEPT !.fused = fused, !.time_last_fuse = imu.time_us]

\* Mutant of StampFused: a successful fusion clears the innovation it used.
StampFused_clears_innovation(rec, fused, imu) ==
    [rec EXCEPT !.fused = fused,
                !.time_last_fuse = IF fused THEN imu.time_us ELSE @,
                !.innovation = IF fused THEN Zero3 ELSE @,
                !.test_ratio = IF fused THEN Zero3 ELSE @]

\* if (_aid_src_gravity.fused) { _aid_src_gravity.time_last_fuse = imu.time_us; }
StampFused(rec, fused, imu) ==
    [rec EXCEPT !.fused = fused,
                !.time_last_fuse = IF fused THEN imu.time_us ELSE @]

controlGravityFusion(imu) ==
    /\ phase = "fuse"
    /\ LET measurement == Measurement(imu, state)
           measurement_var == MeasurementVar(params.gravity_noise)
           gravity_vector == GravityVectorFlag(measurement, accel_vec_filt,
                                 params.imu_ctrl, control_status.vehicle_at_rest,
                                 horizontal_aiding)
           g == ComputeGravityInnovVarAndKAndH(state, P, measurement,
                                               measurement_var, FLT_EPSILON)
           rec == FillAidStatus(aid_src_gravity, imu, measurement, measurement_var, g)
           accel_clipping == AccelClipping(imu)
           attempt == FusionGuard(gravity_vector, rec.innovation_rejected,
                                  accel_clipping)
           f == FuseAxes(state, P, g)
       IN  /\ control_status' = [control_status EXCEPT !.gravity_vector = gravity_vector]
           /\ IF attempt
              THEN /\ state' = f.state
                   /\ P' = f.P
                   /\ aid_src_gravity' = StampFused(rec, f.fused, imu)
              ELSE /\ UNCHANGED <<state, P>>
                   /\ aid_src_gravity' = rec
           /\ call' = [imu |-> imu,
                       pre_state |-> state, pre_P |-> P,
                       pre_time_last_fuse |-> aid_src_gravity.time_last_fuse,
                       pre_aid_src |-> [innovation_rejected |->
                                            aid_src_gravity.innovation_rejected,
                                        fused |-> aid_src_gravity.fused],
                       pre_gravity_vector |-> control_status.gravity_vector,
                       measurement |-> measurement,
                       measurement_var |-> measurement_var,
                       gains |-> g,
                       attempted |-> attempt,
                       results |-> IF attempt THEN f.results ELSE <<>>,
                       steps |-> IF attempt THEN f.steps ELSE <<>>]
    /\ cycle' = cycle + 1
    /\ phase' = "predict"
    /\ UNCHANGED <<accel_vec_filt, params, horizontal_aiding>>

\* ------------------------------------------------------------ environment

\* Before each call the rest of the estimator has updated the low-pass
\* filtered acceleration, the at-rest flag and the horizontal aiding state.
AccelFiltSet == {<<0, 0, -10>>, <<0, 0, -9>>, <<0, 0, -11>>}

Predict ==
    /\ phase = "predict"
    /\ cycle < MaxCalls
    /\ \E lpf \in AccelFiltSet, at_rest \in BOOLEAN, horiz \in BOOLEAN :
          /\ accel_vec_filt' = lpf
          /\ control_status' = [control_status EXCEPT !.vehicle_at_rest = at_rest]
          /\ horizontal_aiding' = horiz
    /\ phase' = "fuse"
    /\ UNCHANGED <<state, P, params, aid_src_gravity, cycle, call>>

\* The specific force sensed over the sample, before integration.
AccelSet == {<<0, 0, -9>>, <<1, 0, -9>>, <<3, 0, -9>>,
             <<0, 0, -8>>, <<0, 0, -10>>, <<0, 0, -11>>}

DtSet == {2}

ClippingSet == {<<FALSE, FALSE, FALSE>>, <<TRUE, FALSE, FALSE>>,
                <<FALSE, FALSE, TRUE>>}

\* The IMU samples of the delayed horizon at time t.
ImuSamples(t) ==
    {[delta_vel |-> [i \in Axes |-> a[i] * dt], delta_vel_dt |-> dt,
      time_us |-> t, delta_vel_clipping |-> c] :
        a \in AccelSet, dt \in DtSet, c \in ClippingSet}

\* ---------------------------------------------------------------- initial

\* A covariance with the 3x3 block of the observed states given, the
\* accelerometer bias variance bv and its covariance bc with the z state.
Cov(block, bv, bc) ==
    [r \in StateIdx |-> [c \in StateIdx |->
        IF r <= 3 /\ c <= 3 THEN block[r][c]
        ELSE IF r = c THEN bv
        ELSE IF (r = 3 /\ c = 6) \/ (r = 6 /\ c = 3) THEN bc
        ELSE 0]]

\* Uncorrelated axes.
P_Diag == Cov(<<<<4, 0, 0>>, <<0, 4, 0>>, <<0, 0, 4>>>>, 2, 1)
\* x and y fully correlated.
P_XY == Cov(<<<<8, 8, 0>>, <<8, 8, 0>>, <<0, 0, 8>>>>, 0, 0)
\* x and z fully correlated.
P_XZ == Cov(<<<<8, 0, 8>>, <<0, 8, 0>>, <<8, 0, 8>>>>, 0, 0)
\* Ill-conditioned: rounding has left the x-y covariance larger than the
\* variances allow, the case the health check of an update exists for.
P_Ill == Cov(<<<<4, 5, 0>>, <<5, 4, 0>>, <<0, 0, 4>>>>, 0, 0)

InitCovSet == {P_Diag, P_XY, P_XZ, P_Ill}

\* Level attitude, an accelerometer z bias of one unit.
InitState == <<0, 0, -10, 0, 0, 1>>

ImuCtrlSet == {3, 7}

GravityNoiseSet == {0, 2, -2}

NoImu == [delta_vel |-> Zero3, delta_vel_dt |-> 1, time_us |-> 0,
          delta_vel_clipping |-> <<FALSE, FALSE, FALSE>>]

Init ==
    /\ state = InitState
    /\ P \in InitCovSet
    /\ accel_vec_filt = <<0, 0, -10>>
    /\ params \in [imu_ctrl : ImuCtrlSet, gravity_noise : GravityNoiseSet]
    /\ control_status = [gravity_vector |-> FALSE, vehicle_at_rest |-> FALSE]
    /\ horizontal_aiding = FALSE
    /\ aid_src_gravity = [timestamp_sample |-> 0,
                          observation |-> Zero3, observation_variance |-> Zero3,
                          innovation |-> Zero3, innovation_variance |-> Zero3,
                          test_ratio |-> Zero3,
                          innovation_rejected |-> FALSE, fused |-> FALSE,
                          time_last_fuse |-> 0]
    /\ phase = "predict"
    /\ cycle = 0
    /\ call = [imu |-> NoImu, pre_state |-> InitState, pre_P |-> P,
               pre_time_last_fuse |-> 0,
               pre_aid_src |-> [innovation_rejected |-> FALSE, fused |-> FALSE],
               pre_gravity_vector |-> FALSE,
               measurement |-> Zero3, measurement_var |-> 0,
               gains |-> [innovation |-> Zero3, innovation_variance |-> Zero3,
                          Kx |-> [r \in StateIdx |-> 0],
                          Ky |-> [r \in StateIdx |-> 0],
                          Kz |-> [r \in StateIdx |-> 0]],
               attempted |-> FALSE, results |-> <<>>, steps |-> <<>>]

Next ==
    \/ Predict
    \/ \E imu \in ImuSamples(cycle + 1) : controlGravityFusion(imu)

Spec == Init /\ [][Next]_vars

\* ================================================================== claims

\* The state right after a call of controlGravityFusion: the flags and the
\* filtered acceleration are still those the call read.
AfterCall == cycle > 0 /\ phase = "predict"

\* The bias-corrected measurement of the last call, from its sample and the
\* state vector the call started with.
BiasCorrected ==
    [i \in Axes |-> (call.imu.delta_vel[i] \div call.imu.delta_vel_dt)
                        - call.pre_state[3 + i]]

\* n lies strictly between (0.9 g)^2 and (1.1 g)^2.
StrictlyInBand(n) ==
    /\ 100 * n > 81 * sq(CONSTANTS_ONE_G)
    /\ 100 * n < 121 * sq(CONSTANTS_ONE_G)

\* The GravityVector bit (value 4) is set in the configured mask.
BitSet == (params.imu_ctrl % 8) >= 4

ClippedLastCall == \E i \in Axes : call.imu.delta_vel_clipping[i]

Unchanged == state = call.pre_state /\ P = call.pre_P

\* C1: with the GravityVector bit set, the vehicle not at rest and no
\* horizontal aiding, gravity_vector is true after the call exactly when the
\* squared norms of the bias-corrected measurement and of the filtered
\* acceleration both lie strictly between (0.9 g)^2 and (1.1 g)^2.
C1_MagnitudeGate ==
    (AfterCall /\ BitSet /\ ~control_status.vehicle_at_rest /\ ~horizontal_aiding)
        => (control_status.gravity_vector
              <=> (StrictlyInBand(norm_squared(BiasCorrected))
                     /\ StrictlyInBand(norm_squared(accel_vec_filt))))

\* A measurement exactly on the upper bound with the filtered acceleration
\* inside the band: not eligible.
C1_Witness ==
    /\ AfterCall /\ BitSet /\ ~control_status.vehicle_at_rest /\ ~horizontal_aiding
    /\ 100 * norm_squared(BiasCorrected) = 121 * sq(CONSTANTS_ONE_G)
    /\ StrictlyInBand(norm_squared(accel_vec_filt))
    /\ ~control_status.gravity_vector

\* C2: with vehicle_at_rest set, gravity_vector does not depend on either
\* magnitude: it is true exactly when the modality is enabled and no
\* horizontal aiding is active.
C2_AtRestOverride ==
    (AfterCall /\ control_status.vehicle_at_rest)
        => (control_status.gravity_vector <=> (BitSet /\ ~horizontal_aiding))

\* At rest, a measurement of 12 units (beyond 1.1 g) and a filtered
\* acceleration on the band's bound: eligible.
C2_Witness ==
    /\ AfterCall /\ control_status.vehicle_at_rest
    /\ norm_squared(BiasCorrected) = 144
    /\ ~StrictlyInBand(norm_squared(accel_vec_filt))
    /\ control_status.gravity_vector

\* C3: when horizontal aiding is active during the call, gravity_vector is
\* false after it and no measurementUpdate was performed.
C3_MutualExclusion ==
    (AfterCall /\ horizontal_aiding)
        => (~control_status.gravity_vector /\ call.results = <<>> /\ Unchanged)

\* Horizontal aiding active while the source is enabled, at rest, both
\* magnitudes in the band, the innovation accepted and nothing clipped.
C3_Witness ==
    /\ AfterCall /\ horizontal_aiding /\ BitSet /\ control_status.vehicle_at_rest
    /\ StrictlyInBand(norm_squared(BiasCorrected))
    /\ StrictlyInBand(norm_squared(accel_vec_filt))
    /\ ~aid_src_gravity.innovation_rejected /\ ~ClippedLastCall
    /\ ~control_status.gravity_vector

\* C4: when the GravityVector bit is not set in imu_ctrl, gravity_vector is
\* false after the call and the state vector and covariance are not modified.
C4_DisabledByMask ==
    (AfterCall /\ ~BitSet) => (~control_status.gravity_vector /\ Unchanged)

\* The bit cleared (other bits set) while at rest, both magnitudes in the
\* band, no horizontal aiding, the innovation accepted and nothing clipped.
C4_Witness ==
    /\ AfterCall /\ ~BitSet /\ params.imu_ctrl # 0
    /\ control_status.vehicle_at_rest /\ ~horizontal_aiding
    /\ StrictlyInBand(norm_squared(BiasCorrected))
    /\ StrictlyInBand(norm_squared(accel_vec_filt))
    /\ ~aid_src_gravity.innovation_rejected /\ ~ClippedLastCall
    /\ ~control_status.gravity_vector

\* ------------------------------------------------- the axis corrections

\* The gain vector the gain computer returned for axis j in the last call.
GainOf(j) == IF j = 1 THEN call.gains.Kx
             ELSE IF j = 2 THEN call.gains.Ky ELSE call.gains.Kz

\* The state correction of axis j: gain times innovation.
StateCorr(j) ==
    [r \in StateIdx |-> (GainOf(j)[r] * call.gains.innovation[j]) \div KDenom]

\* The covariance correction of axis j: K S K^T.
CovCorr(j) ==
    [r \in StateIdx |-> [c \in StateIdx |->
        (GainOf(j)[r] * call.gains.innovation_variance[j] * GainOf(j)[c])
            \div (KDenom * KDenom)]]

RECURSIVE StateAfter(_)
\* The state vector the call started with, corrected by the axes 1..k.
StateAfter(k) ==
    IF k = 0 THEN call.pre_state
    ELSE [r \in StateIdx |-> StateAfter(k - 1)[r] + StateCorr(k)[r]]

RECURSIVE CovAfter(_)
\* The covariance the call started with, corrected by the axes 1..k.
CovAfter(k) ==
    IF k = 0 THEN call.pre_P
    ELSE [r \in StateIdx |-> [c \in StateIdx |->
            CovAfter(k - 1)[r][c] - CovCorr(k)[r][c]]]

\* The number of axis updates of the last call that returned true.
Succeeded == Cardinality({k \in DOMAIN call.results : call.results[k]})

SomeAxisFailed == \E k \in DOMAIN call.results : ~call.results[k]

\* C5: fused is true only if gravity_vector is true, innovation_rejected is
\* false, no clipping flag is set and the x, y and z updates all returned
\* true; eligible but rejected gives fused false and the state unchanged.
C5_FusedOnlyIf ==
    AfterCall =>
        /\ aid_src_gravity.fused =>
              /\ control_status.gravity_vector
              /\ ~aid_src_gravity.innovation_rejected
              /\ ~ClippedLastCall
              /\ call.results = <<TRUE, TRUE, TRUE>>
        /\ (control_status.gravity_vector /\ aid_src_gravity.innovation_rejected)
              => (~aid_src_gravity.fused /\ state = call.pre_state)

\* A call that fused: all three updates ran and returned true.
C5_Witness ==
    /\ AfterCall /\ aid_src_gravity.fused
    /\ call.results = <<TRUE, TRUE, TRUE>>
    /\ state # call.pre_state

\* C6: if the source is ineligible, or the innovation is rejected, or a
\* clipping flag is set, the state vector and P after the call are those
\* before it.
C6_NoMutationOnSkip ==
    (AfterCall /\ (\/ ~control_status.gravity_vector
                   \/ aid_src_gravity.innovation_rejected
                   \/ ClippedLastCall))
        => Unchanged

\* Eligible and accepted with a non-zero innovation, held back only by the
\* clipping of the z axis.
C6_Witness ==
    /\ AfterCall /\ control_status.gravity_vector
    /\ ~aid_src_gravity.innovation_rejected
    /\ call.imu.delta_vel_clipping = <<FALSE, FALSE, TRUE>>
    /\ aid_src_gravity.innovation # Zero3
    /\ Unchanged

\* C7: when the update of an axis returns false, it is the last one executed
\* (no later axis is updated), fused is false, time_last_fuse keeps its value
\* and the corrections of the axes before it remain applied.
C7_ShortCircuit ==
    (AfterCall /\ call.attempted /\ SomeAxisFailed) =>
        LET n == Len(call.results)
        IN  /\ ~call.results[n]
            /\ \A j \in 1..(n - 1) : call.results[j]
            /\ ~aid_src_gravity.fused
            /\ aid_src_gravity.time_last_fuse = call.pre_time_last_fuse
            /\ state = StateAfter(n - 1)
            /\ P = CovAfter(n - 1)

\* The y update failed after the x update succeeded: z was not executed and
\* the x correction is in the covariance.
C7_Witness ==
    /\ AfterCall /\ call.attempted
    /\ call.results = <<TRUE, FALSE>>
    /\ ~aid_src_gravity.fused
    /\ P = CovAfter(1) /\ P # call.pre_P

\* C8 as stated: after any call either all three corrections are applied and
\* fused is true, or state and covariance equal their values at the start.
C8_AllOrNothing ==
    AfterCall =>
        \/ (aid_src_gravity.fused /\ state = StateAfter(3) /\ P = CovAfter(3))
        \/ Unchanged

\* C8 (amended): after any call the state and covariance hold exactly the
\* corrections of the axes whose update returned true, a prefix of x, y, z:
\* all three with fused true, or none, or, fused being false, only x or only
\* x and y when the update of the next axis failed.
C8_PrefixApplied ==
    AfterCall =>
        /\ state = StateAfter(Succeeded)
        /\ P = CovAfter(Succeeded)
        /\ \A k \in 1..Succeeded : call.results[k]
        /\ aid_src_gravity.fused <=> (Succeeded = 3)
        /\ (~call.attempted) => (Succeeded = 0)

\* The z update failed after x and y succeeded: two of the three corrections
\* are applied and fused is false.
C8_Witness ==
    /\ AfterCall /\ Succeeded = 2 /\ ~aid_src_gravity.fused
    /\ call.results = <<TRUE, TRUE, FALSE>>
    /\ P = CovAfter(2) /\ P # CovAfter(1) /\ P # call.pre_P

\* Whether the correction of axis k leaves no negative variance in Pm.
Healthy(Pm, k) == \A i \in StateIdx : Pm[i][i] >= CovCorr(k)[i][i]

\* C9: the updates run in the order x, y, z, each on the state and covariance
\* the earlier ones left: the k-th executed update is that of axis k, it is
\* accepted or refused against the covariance corrected by axes 1..k-1, and
\* what it leaves is that state and covariance with its correction added.
C9_Sequential ==
    (AfterCall /\ call.attempted) =>
        /\ Len(call.results) >= 1
        /\ Len(call.steps) = Len(call.results)
        /\ \A k \in DOMAIN call.results :
              /\ call.results[k] = Healthy(CovAfter(k - 1), k)
              /\ call.steps[k] =
                    IF call.results[k]
                    THEN [state |-> StateAfter(k), P |-> CovAfter(k)]
                    ELSE [state |-> StateAfter(k - 1), P |-> CovAfter(k - 1)]
        /\ state = call.steps[Len(call.steps)].state
        /\ P = call.steps[Len(call.steps)].P

\* The z update is refused on the covariance the x and y updates left, though
\* the covariance the call started with would have accepted it.
C9_Witness ==
    /\ AfterCall /\ call.attempted
    /\ call.results = <<TRUE, TRUE, FALSE>>
    /\ Healthy(call.pre_P, 3)
    /\ ~Healthy(CovAfter(2), 3)
    /\ StateAfter(1) # call.pre_state

\* max(gravity_noise^2, 0.01^2) of the configured parameter.
NoiseVar ==
    IF params.gravity_noise * params.gravity_noise >= MinGravityNoiseSq
    THEN params.gravity_noise * params.gravity_noise
    ELSE MinGravityNoiseSq

\* C10: after every call the record holds the sample time, the bias-corrected
\* measurement, the measurement variance on all three axes, and the
\* innovation and innovation variance the gain computer returned for the call.
C10_DiagnosticsPopulated ==
    AfterCall =>
        LET g == ComputeGravityInnovVarAndKAndH(call.pre_state, call.pre_P,
                     BiasCorrected, NoiseVar, FLT_EPSILON)
        IN  /\ aid_src_gravity.timestamp_sample = call.imu.time_us
            /\ aid_src_gravity.timestamp_sample = cycle
            /\ aid_src_gravity.observation = BiasCorrected
            /\ aid_src_gravity.observation_variance = <<NoiseVar, NoiseVar, NoiseVar>>
            /\ aid_src_gravity.innovation = g.innovation
            /\ aid_src_gravity.innovation_variance = g.innovation_variance
            /\ call.gains = g

\* A second call that is ineligible and clipped, after a first call that
\* changed the state, with the record filled from the second sample.
C10_Witness ==
    /\ AfterCall /\ cycle = 2
    /\ ~control_status.gravity_vector /\ ClippedLastCall
    /\ call.pre_state # InitState
    /\ aid_src_gravity.timestamp_sample = 2
    /\ aid_src_gravity.observation = BiasCorrected
    /\ aid_src_gravity.innovation # Zero3
    /\ aid_src_gravity.innovation_variance[1] > NoiseVar

\* ------------------------------------------------------- zero innovation

\* The sum of the variances of the three observed states.
Trace3(Pm) == Pm[1][1] + Pm[2][2] + Pm[3][3]

\* The last call was eligible and accepted with a zero innovation on all axes.
ZeroInnovationCall ==
    /\ AfterCall
    /\ aid_src_gravity.innovation = Zero3
    /\ control_status.gravity_vector
    /\ ~aid_src_gravity.innovation_rejected

\* Some axis correction of the last call takes at least one unit off the
\* variance of an observed state.
CorrectionVisible == \E k \in Axes, i \in Axes : CovCorr(k)[i][i] > 0

\* C11 as stated: zero innovation, eligible and not rejected give fused =
\* true, an unchanged state vector and a strictly smaller trace.
C11_ZeroInnovationFuses ==
    ZeroInnovationCall =>
        /\ aid_src_gravity.fused
        /\ state = call.pre_state
        /\ Trace3(P) < Trace3(call.pre_P)

\* C11 (amended): with a zero innovation, eligible and not rejected, fused is
\* true exactly when no clipping flag is set and the three updates returned
\* true; the state vector is unchanged in every case; when fused, the trace of
\* the observed variances does not grow and is strictly smaller whenever a
\* correction is not rounded away.
C11_ZeroInnovationAmended ==
    ZeroInnovationCall =>
        /\ aid_src_gravity.fused
              <=> (~ClippedLastCall /\ call.results = <<TRUE, TRUE, TRUE>>)
        /\ state = call.pre_state
        /\ aid_src_gravity.fused =>
              /\ Trace3(P) <= Trace3(call.pre_P)
              /\ CorrectionVisible => Trace3(P) < Trace3(call.pre_P)

\* A fused call with zero innovation: the state kept, the trace smaller.
C11_Witness ==
    /\ ZeroInnovationCall /\ aid_src_gravity.fused
    /\ state = call.pre_state
    /\ Trace3(P) < Trace3(call.pre_P)

\* ------------------------------------------------------ across the calls

\* C12: time_last_fuse is written only by a call that ends with fused = true,
\* which sets it to that call's imu.time_us; a call that ends with fused =
\* false leaves the value the call found, and before any successful fusion
\* it is the initial 0.
C12_TimeLastFuse ==
    /\ AfterCall =>
          aid_src_gravity.time_last_fuse =
              IF aid_src_gravity.fused THEN call.imu.time_us
              ELSE call.pre_time_last_fuse
    /\ aid_src_gravity.time_last_fuse <= cycle
    /\ (cycle = 0) => (aid_src_gravity.time_last_fuse = 0)
    /\ (cycle = 1 /\ ~aid_src_gravity.fused) => (aid_src_gravity.time_last_fuse = 0)

\* A second call that was attempted and failed on an axis, or was skipped,
\* after a first call that fused: the time of the first call is kept.
C12_Witness ==
    /\ AfterCall /\ cycle = 2
    /\ call.pre_aid_src.fused
    /\ ~aid_src_gravity.fused
    /\ aid_src_gravity.timestamp_sample = 2
    /\ aid_src_gravity.time_last_fuse = 1

\* The innovation of the last call exceeds the gate on some axis.
BeyondGate ==
    \E i \in Axes :
        call.gains.innovation[i] * call.gains.innovation[i]
            > call.gains.innovation_variance[i]

\* The eligibility of the last call, from what the call read.
EligibleNow ==
    /\ BitSet
    /\ ~horizontal_aiding
    /\ \/ control_status.vehicle_at_rest
       \/ (StrictlyInBand(norm_squared(BiasCorrected))
             /\ StrictlyInBand(norm_squared(accel_vec_filt)))

\* C13: the eligibility flag, innovation_rejected and the decision to attempt
\* fusion are functions of the call's own inputs and of the shared state the
\* call starts with; the gravity_vector, innovation_rejected and fused values
\* the earlier call left play no part.
C13_NoCarryOver ==
    AfterCall =>
        /\ control_status.gravity_vector <=> EligibleNow
        /\ aid_src_gravity.innovation_rejected <=> BeyondGate
        /\ call.attempted <=> (EligibleNow /\ ~BeyondGate /\ ~ClippedLastCall)

\* A call that attempts fusion right after a call that was eligible and
\* rejected.
C13_Witness ==
    /\ AfterCall /\ cycle = 2
    /\ call.pre_gravity_vector
    /\ call.pre_aid_src.innovation_rejected /\ ~call.pre_aid_src.fused
    /\ call.attempted /\ aid_src_gravity.fused
    /\ ~aid_src_gravity.innovation_rejected

\* C14: with the gate of 1.0, innovation_rejected is true exactly when on
\* some axis innovation^2 / innovation_variance exceeds 1; when it is true
\* and the source is eligible, fused is false and the state is unchanged.
C14_RejectionTest ==
    AfterCall =>
        /\ aid_src_gravity.innovation_rejected
              <=> (\E i \in Axes :
                      sq(aid_src_gravity.innovation[i])
                          > aid_src_gravity.innovation_variance[i])
        /\ \A i \in Axes : aid_src_gravity.innovation_variance[i] > 0
        /\ (aid_src_gravity.innovation_rejected /\ control_status.gravity_vector)
              => (~aid_src_gravity.fused /\ Unchanged /\ call.results = <<>>)

\* Eligible and unclipped, an innovation of 3 on x against a variance below
\* 9: rejected, nothing fused.
C14_Witness ==
    /\ AfterCall /\ control_status.gravity_vector /\ ~ClippedLastCall
    /\ aid_src_gravity.innovation = <<3, 0, 0>>
    /\ aid_src_gravity.innovation_variance[1] < 9
    /\ aid_src_gravity.innovation_rejected
    /\ ~aid_src_gravity.fused /\ Unchanged

\* The test ratios of the last call, from its own innovation and variance.
RatioNow ==
    [i \in Axes |->
        (call.gains.innovation[i] * call.gains.innovation[i] * KDenom)
            \div call.gains.innovation_variance[i]]

\* C15: the record is reset at the start of every call: after a call that
\* does not attempt fusion fused is false whatever the previous call left,
\* and observation, innovation and test ratio are those of this call.
C15_RecordReset ==
    (AfterCall /\ ~call.attempted) =>
        /\ ~aid_src_gravity.fused
        /\ aid_src_gravity.timestamp_sample = call.imu.time_us
        /\ aid_src_gravity.observation = BiasCorrected
        /\ aid_src_gravity.innovation = call.gains.innovation
        /\ aid_src_gravity.innovation_variance = call.gains.innovation_variance
        /\ aid_src_gravity.test_ratio = RatioNow

\* A call that does not attempt fusion right after a call that fused.
C15_Witness ==
    /\ AfterCall /\ cycle = 2
    /\ call.pre_aid_src.fused
    /\ ~call.attempted
    /\ ~aid_src_gravity.fused
    /\ aid_src_gravity.observation = BiasCorrected

\* -------------------------------------------------- gains, flag, record

\* What the gain computer returns on the state and covariance st, Pm for the
\* measurement of the last call.
GainsOn(st, Pm) ==
    ComputeGravityInnovVarAndKAndH(st, Pm, BiasCorrected, NoiseVar, FLT_EPSILON)

\* C16: innovation, innovation variance and the gains Kx, Ky, Kz are computed
\* once, from the state and covariance the call starts with; the y and z
\* updates apply these values to the state and covariance the earlier
\* updates left, without computing them again.
C16_GainsComputedOnce ==
    (AfterCall /\ call.attempted) =>
        /\ call.gains = GainsOn(call.pre_state, call.pre_P)
        /\ \A k \in 2..Len(call.results) :
              call.results[k] =>
                  /\ call.steps[k].state =
                        [r \in StateIdx |->
                            call.steps[k - 1].state[r] + StateCorr(k)[r]]
                  /\ call.steps[k].P =
                        [r \in StateIdx |-> [c \in StateIdx |->
                            call.steps[k - 1].P[r][c] - CovCorr(k)[r][c]]]

\* A fused call in which the x update moved the state and the covariance, so
\* that computing the y gain and innovation again would give other values,
\* and the y correction applied is the one computed at the start.
C16_Witness ==
    /\ AfterCall /\ call.attempted /\ aid_src_gravity.fused
    /\ GainsOn(call.steps[1].state, call.steps[1].P).Ky # call.gains.Ky
    /\ GainsOn(call.steps[1].state, call.steps[1].P).innovation_variance
          # call.gains.innovation_variance
    /\ call.steps[2].P # call.steps[1].P
    /\ P = CovAfter(3)

\* C17: gravity_vector reports eligibility, not fusion: it is the eligibility
\* computed from the inputs whether or not the sample is clipped, the
\* innovation rejected or an axis update refused, and fused = true implies
\* gravity_vector = true.
C17_FlagIsEligibility ==
    AfterCall =>
        /\ aid_src_gravity.fused => control_status.gravity_vector
        /\ call.attempted => control_status.gravity_vector
        /\ (EligibleNow /\ (ClippedLastCall \/ BeyondGate \/ SomeAxisFailed))
              => (control_status.gravity_vector /\ ~aid_src_gravity.fused)

\* Fusion attempted and refused on the y axis: the flag stays true, fused is
\* false.
C17_Witness ==
    /\ AfterCall /\ control_status.gravity_vector
    /\ call.attempted /\ SomeAxisFailed
    /\ ~ClippedLastCall /\ ~aid_src_gravity.innovation_rejected
    /\ ~aid_src_gravity.fused

\* C18: the diagnostic values are those computed before the fusion, from the
\* state and covariance the call starts with; the fusion leaves them as they
\* are and writes only fused and time_last_fuse.
C18_RecordFrame ==
    AfterCall =>
        LET g == GainsOn(call.pre_state, call.pre_P)
        IN  aid_src_gravity =
                [timestamp_sample |-> call.imu.time_us,
                 observation |-> BiasCorrected,
                 observation_variance |-> <<NoiseVar, NoiseVar, NoiseVar>>,
                 innovation |-> g.innovation,
                 innovation_variance |-> g.innovation_variance,
                 test_ratio |-> RatioNow,
                 innovation_rejected |-> BeyondGate,
                 fused |-> aid_src_gravity.fused,
                 time_last_fuse |-> aid_src_gravity.time_last_fuse]

\* A fused call that moved the state and shrank the covariance: the recorded
\* innovation and variance are not those of the state and covariance left.
C18_Witness ==
    /\ AfterCall /\ aid_src_gravity.fused
    /\ aid_src_gravity.innovation # Zero3
    /\ aid_src_gravity.innovation # GainsOn(state, P).innovation
    /\ aid_src_gravity.innovation_variance # GainsOn(state, P).innovation_variance
    /\ aid_src_gravity.innovation = GainsOn(call.pre_state, call.pre_P).innovation

\* C19: the measurement variance given to the gain computer and stored in
\* observation_variance is max(gravity_noise^2, 0.01^2): at least the floor,
\* so strictly positive, for zero and negative gravity_noise too, and the
\* same on the three axes.
C19_MeasurementVariance ==
    AfterCall =>
        /\ call.measurement_var = NoiseVar
        /\ call.measurement_var >= MinGravityNoiseSq
        /\ call.measurement_var > 0
        /\ call.measurement_var >= params.gravity_noise * params.gravity_noise
        /\ \A i \in Axes :
              /\ aid_src_gravity.observation_variance[i] = call.measurement_var
              /\ call.gains.innovation_variance[i]
                    = call.pre_P[i][i] + call.measurement_var

\* A gravity_noise of zero: the variance is the floor on all three axes.
C19_Witness ==
    /\ AfterCall /\ params.gravity_noise = 0
    /\ aid_src_gravity.observation_variance
          = <<MinGravityNoiseSq, MinGravityNoiseSq, MinGravityNoiseSq>>
    /\ call.gains.innovation_variance[1] = call.pre_P[1][1] + MinGravityNoiseSq

====
